---- MODULE Spec2Model ----
(***************************************************************************)
(* Model of the scoring engine of the Oahu tourist sustainability          *)
(* calculator (src/main.py): the destination factor table, the six         *)
(* category scorers, the three absolute-impact estimators, the aggregation *)
(* in calculate_impact and the rule set of get_recommendations.            *)
(*                                                                         *)
(* Numbers.  The program computes in Python floats; the model computes the *)
(* same expressions exactly, in integers:                                  *)
(*   - a fraction field of user_data (water_conservation, ...) is held as  *)
(*     its percentage p, standing for p/100 (the form divides a 0..100     *)
(*     slider by 100);                                                     *)
(*   - a factor of the destination table is held in hundredths;            *)
(*   - a score is held in score units, SU units to the point;              *)
(*   - a carbon mass is held in carbon units, CU units to the ton;         *)
(*   - water_usage is in gallons, waste_generation in tenths of a pound;   *)
(*   - an impact_breakdown entry is the exact quotient, kept as the pair   *)
(*     [num, den] (num in score units, den the rounded overall score).     *)
(* round() is Python's: to nearest, ties to even.  Float rounding error    *)
(* (at most a few ulp) is not modelled.                                    *)
(***************************************************************************)
EXTENDS Integers, Sequences, FiniteSets, TLC

VARIABLES
    user_data,        \* the TripParameters record of the latest call
    results,          \* what calculate_impact returned or raised for it
    recommendations,  \* what get_recommendations returned for it
    prev,             \* an earlier call, remembered to compare with
    scores,           \* the category scores handed to the aggregation step
    calls,            \* the number of calls of calculate_impact so far
    frames            \* the invocations of the engine in flight, step by step

vars == <<user_data, results, recommendations, prev, scores, calls, frames>>

-----------------------------------------------------------------------------
(* Units *)

\* score units per point: hundredths, times lcm(1..10) so that the average
\* over up to 10 activities is exact, times 20 so that the weights are exact
SU == 100 * 2520 * 20

\* carbon units per ton
CU == 15 * 1000 * 1000

Max(a, b) == IF a >= b THEN a ELSE b

Min(a, b) == IF a <= b THEN a ELSE b

\* Clamp without its lower bound
Clamp_no_lower(base_score) == Min(100 * SU, base_score)

\* Clamp without its upper bound
Clamp_no_upper(base_score) == Max(0, base_score)

\* max(0, min(100, base_score)), in score units
Clamp(base_score) == Max(0, Min(100 * SU, base_score))

\* int(n / d) for n >= 0 and d > 0: the fraction dropped
Truncate(n, d) == n \div d

\* Python round(n / d) for d > 0: nearest integer, ties to even
RoundHalfEven(n, d) ==
    LET q == n \div d
        r == n % d
    IN  IF 2 * r < d THEN q
        ELSE IF 2 * r > d THEN q + 1
        ELSE IF q % 2 = 0 THEN q ELSE q + 1

\* x hundredths of a point, in score units
Hundredths(x) == x * (SU \div 100)

-----------------------------------------------------------------------------
(* Enumerations of the input form *)

TransportModes ==
    { "Rental EV", "Rental hybrid", "Rental economy car",
      "Rental SUV/large vehicle", "Public transportation/shuttle",
      "Mostly walking/biking", "Rideshare/taxi" }

AccommodationTypes ==
    { "Eco-certified hotel/resort", "Standard hotel/resort", "Luxury resort",
      "Vacation rental", "Hostel/budget accommodation",
      "Camping/outdoor lodging" }

ActivityOptions ==
    { "Snorkeling/scuba on coral reefs",
      "Motorized water sports (jet ski, motorboats)",
      "Hiking on maintained trails", "Off-trail hiking/exploration",
      "Wildlife viewing tours", "ATV/off-road vehicle tours",
      "Shopping/dining", "Cultural sites/museums", "Beach relaxation",
      "Surfing/paddleboarding" }

-----------------------------------------------------------------------------
(* Destination factor table, in hundredths *)

get_oahu_environmental_factors ==
    [ transport |->
        [ traffic_congestion_factor |-> 80,
          public_transport_quality |-> 60,
          ev_rental_availability |-> 40,
          avg_tourist_travel_distance |-> 2000 ],
      accommodation |->
        [ hotel_energy_intensity |-> 2050,
          resort_water_intensity |-> 30000,
          green_certified_percentage |-> 25,
          avg_ac_usage |-> 800 ],
      energy |->
        [ electricity_cost |-> 34,
          renewable_percentage |-> 35,
          fossil_fuel_dependency |-> 65,
          tourism_energy_factor |-> 150 ],
      water |->
        [ freshwater_scarcity |-> 70,
          rainfall_variation |-> 70,
          tourism_water_factor |-> 200,
          avg_hotel_consumption |-> 30000 ],
      waste |->
        [ limited_landfill_space |-> 80,
          recycling_infrastructure |-> 50,
          marine_debris_impact |-> 90,
          tourism_waste_factor |-> 180 ],
      food |->
        [ import_dependency |-> 85,
          local_agriculture_capacity |-> 30,
          fishing_sustainability |-> 60,
          tourist_dining_impact |-> 160 ],
      activities |->
        [ reef_vulnerability |-> 80,
          trail_erosion_factor |-> 70,
          wildlife_disturbance |-> 60,
          marine_activity_impact |-> 75 ],
      carbon |->
        [ island_multiplier |-> 120,
          tourism_impact |-> 150,
          flight_emissions_factor |-> 20,
          avg_tourist_emissions |-> 320 ] ]

-----------------------------------------------------------------------------
(* Category scorers.  Each returns a score in score units.  The two table   *)
(* lookups by label raise KeyError for a label that is not a key; the       *)
(* Raises_ predicates say when, and calculate_impact propagates it.         *)

\* transport type multipliers, in tenths
transport_multipliers ==
    [ m \in TransportModes |->
        CASE m = "Rental EV" -> 3
          [] m = "Rental hybrid" -> 6
          [] m = "Rental economy car" -> 10
          [] m = "Rental SUV/large vehicle" -> 20
          [] m = "Public transportation/shuttle" -> 4
          [] m = "Mostly walking/biking" -> 1
          [] m = "Rideshare/taxi" -> 8 ]

Raises_transport(ud) == ud.local_transport \notin DOMAIN transport_multipliers

calculate_transport_impact(ud, oahu_factors) ==
    LET base_score == 100 * SU
        \* flight_distance * 0.02
        flight_impact == ud.flight_distance * 2 * (SU \div 100)
        daily_miles == oahu_factors.transport.avg_tourist_travel_distance
        \* daily_miles * multiplier * 0.15
        transport_impact ==
            (daily_miles * transport_multipliers[ud.local_transport] * 15
               * (SU \div 10000)) \div 10
        adjustment ==
            IF ud.local_transport \in
                 {"Public transportation/shuttle", "Mostly walking/biking"}
            THEN 10 * Hundredths(oahu_factors.transport.public_transport_quality)
            ELSE IF ud.local_transport = "Rental EV"
            THEN -(5 * Hundredths(100 - oahu_factors.transport.ev_rental_availability))
            ELSE 0
        congestion_impact ==
            5 * Hundredths(oahu_factors.transport.traffic_congestion_factor)
    IN  Clamp(base_score - flight_impact - transport_impact + adjustment
              - congestion_impact)

\* accommodation impact multipliers, in tenths
accommodation_multipliers ==
    [ a \in AccommodationTypes |->
        CASE a = "Eco-certified hotel/resort" -> 5
          [] a = "Standard hotel/resort" -> 10
          [] a = "Luxury resort" -> 15
          [] a = "Vacation rental" -> 8
          [] a = "Hostel/budget accommodation" -> 6
          [] a = "Camping/outdoor lodging" -> 3 ]

Raises_accommodation(ud) ==
    ud.accommodation_type \notin DOMAIN accommodation_multipliers

calculate_accommodation_impact(ud, oahu_factors) ==
    LET base_score == 100 * SU
        \* 30 * multiplier
        accommodation_impact ==
            3 * accommodation_multipliers[ud.accommodation_type] * SU
        ac_impact == ud.ac_usage * 2 * SU
        \* 15 * (1 - water_conservation)
        water_practices_impact == 15 * Hundredths(100 - ud.water_conservation)
        linen == IF ud.linen_reuse THEN 10 * SU ELSE 0
        energy_factor == oahu_factors.energy.tourism_energy_factor
        green_cert_adjustment ==
            5 * Hundredths(oahu_factors.accommodation.green_certified_percentage)
    IN  Clamp(base_score - accommodation_impact - ac_impact
              - water_practices_impact + linen
              - 5 * Hundredths(energy_factor - 100) + green_cert_adjustment)

\* activity impact of one label, in hundredths of a point; .get(activity, 10)
activity_impacts(activity, oahu_factors) ==
    CASE activity = "Snorkeling/scuba on coral reefs" ->
           15 * oahu_factors.activities.reef_vulnerability
      [] activity = "Motorized water sports (jet ski, motorboats)" -> 2500
      [] activity = "Hiking on maintained trails" ->
           5 * oahu_factors.activities.trail_erosion_factor
      [] activity = "Off-trail hiking/exploration" ->
           20 * oahu_factors.activities.trail_erosion_factor
      [] activity = "Wildlife viewing tours" ->
           10 * oahu_factors.activities.wildlife_disturbance
      [] activity = "ATV/off-road vehicle tours" -> 3000
      [] activity = "Shopping/dining" -> 1000
      [] activity = "Cultural sites/museums" -> 500
      [] activity = "Beach relaxation" -> 500
      [] activity = "Surfing/paddleboarding" ->
           5 * oahu_factors.activities.marine_activity_impact
      [] OTHER -> 1000

\* sum(activity_impacts.get(activity, 10) for activity in activities)
RECURSIVE SumImpacts(_, _)
SumImpacts(activities, oahu_factors) ==
    IF activities = {} THEN 0
    ELSE LET activity == CHOOSE x \in activities : TRUE
         IN  activity_impacts(activity, oahu_factors)
               + SumImpacts(activities \ {activity}, oahu_factors)

\* activities_impact_from deducting the total instead of the average
activities_impact_from_sum(ud, oahu_factors, total) ==
    LET base_score == 100 * SU
        eco == IF ud.eco_tours THEN 15 * SU ELSE 0
        wildlife ==
            IF ud.wildlife_distance THEN 10 * SU
            ELSE -(10 * Hundredths(oahu_factors.activities.wildlife_disturbance))
        reef ==
            IF ud.reef_safe THEN 15 * SU
            ELSE -(15 * Hundredths(oahu_factors.activities.reef_vulnerability))
    IN  Clamp(base_score - Hundredths(total) + eco + wildlife + reef)

\* lines 456-481: the score, from the total the loop of lines 452-454 has
\* accumulated (in hundredths of a point)
activities_impact_from(ud, oahu_factors, total) ==
    LET base_score == 100 * SU
        activities == ud.activities
        total_activity_impact == Hundredths(total)
        avg_activity_impact ==
            IF activities # {}
            THEN total_activity_impact \div Cardinality(activities)
            ELSE 0
        eco == IF ud.eco_tours THEN 15 * SU ELSE 0
        wildlife ==
            IF ud.wildlife_distance THEN 10 * SU
            ELSE -(10 * Hundredths(oahu_factors.activities.wildlife_disturbance))
        reef ==
            IF ud.reef_safe THEN 15 * SU
            ELSE -(15 * Hundredths(oahu_factors.activities.reef_vulnerability))
    IN  Clamp(base_score - avg_activity_impact + eco + wildlife + reef)

calculate_activities_impact(ud, oahu_factors) ==
    activities_impact_from(ud, oahu_factors,
                           SumImpacts(ud.activities, oahu_factors))

\* calculate_water_impact with the shower term added instead of subtracted
calculate_water_impact_shower_added(ud, oahu_factors) ==
    LET base_score == 100 * SU
        shower_impact == ud.shower_length * 5 * (SU \div 2)
        conservation_impact == 20 * Hundredths(100 - ud.water_conservation)
        linen == IF ud.linen_reuse THEN 15 * SU ELSE -(10 * SU)
        pool_impact == ud.pool_usage * 3 * SU
        scarcity_impact == 10 * Hundredths(oahu_factors.water.freshwater_scarcity)
        tourism_water_factor == oahu_factors.water.tourism_water_factor
    IN  Clamp(base_score + shower_impact - conservation_impact + linen
              - pool_impact - scarcity_impact
              - 5 * Hundredths(tourism_water_factor - 100))

\* calculate_water_impact without the linen adjustment
calculate_water_impact_no_linen(ud, oahu_factors) ==
    LET base_score == 100 * SU
        shower_impact == ud.shower_length * 5 * (SU \div 2)
        conservation_impact == 20 * Hundredths(100 - ud.water_conservation)
        pool_impact == ud.pool_usage * 3 * SU
        scarcity_impact == 10 * Hundredths(oahu_factors.water.freshwater_scarcity)
        tourism_water_factor == oahu_factors.water.tourism_water_factor
    IN  Clamp(base_score - shower_impact - conservation_impact
              - pool_impact - scarcity_impact
              - 5 * Hundredths(tourism_water_factor - 100))

calculate_water_impact(ud, oahu_factors) ==
    LET base_score == 100 * SU
        \* shower_length * 2.5
        shower_impact == ud.shower_length * 5 * (SU \div 2)
        conservation_impact == 20 * Hundredths(100 - ud.water_conservation)
        linen == IF ud.linen_reuse THEN 15 * SU ELSE -(10 * SU)
        pool_impact == ud.pool_usage * 3 * SU
        scarcity_impact == 10 * Hundredths(oahu_factors.water.freshwater_scarcity)
        tourism_water_factor == oahu_factors.water.tourism_water_factor
    IN  Clamp(base_score - shower_impact - conservation_impact + linen
              - pool_impact - scarcity_impact
              - 5 * Hundredths(tourism_water_factor - 100))

\* calculate_waste_impact with the reusable items and the cleanup deducted
\* instead of credited
calculate_waste_impact_deducting(ud, oahu_factors) ==
    LET base_score == 100 * SU
        bottle == IF ud.reusable_bottle THEN -(15 * SU) ELSE 15 * SU
        bag == IF ud.reusable_bag THEN -(10 * SU) ELSE 10 * SU
        single_use_impact == 20 * Hundredths(100 - ud.refuse_single_use)
        cleanup == IF ud.cleanup_participation THEN -(20 * SU) ELSE 0
        landfill_impact == 10 * Hundredths(oahu_factors.waste.limited_landfill_space)
        marine_impact == 10 * Hundredths(oahu_factors.waste.marine_debris_impact)
        tourism_waste_factor == oahu_factors.waste.tourism_waste_factor
    IN  Clamp(base_score + bottle + bag - single_use_impact + cleanup
              - landfill_impact - marine_impact
              - 5 * Hundredths(tourism_waste_factor - 100))

calculate_waste_impact(ud, oahu_factors) ==
    LET base_score == 100 * SU
        bottle == IF ud.reusable_bottle THEN 15 * SU ELSE -(15 * SU)
        bag == IF ud.reusable_bag THEN 10 * SU ELSE -(10 * SU)
        single_use_impact == 20 * Hundredths(100 - ud.refuse_single_use)
        cleanup == IF ud.cleanup_participation THEN 20 * SU ELSE 0
        landfill_impact == 10 * Hundredths(oahu_factors.waste.limited_landfill_space)
        marine_impact == 10 * Hundredths(oahu_factors.waste.marine_debris_impact)
        tourism_waste_factor == oahu_factors.waste.tourism_waste_factor
    IN  Clamp(base_score + bottle + bag - single_use_impact + cleanup
              - landfill_impact - marine_impact
              - 5 * Hundredths(tourism_waste_factor - 100))

\* calculate_food_impact with each share deducted itself, instead of its
\* complement
calculate_food_impact_by_share(ud, oahu_factors) ==
    LET base_score == 100 * SU
        local_food_impact == 25 * Hundredths(ud.local_food)
        plant_based_impact == 20 * Hundredths(ud.plant_based)
        seafood == IF ud.seafood_sustainable THEN 15 * SU ELSE -(15 * SU)
        food_waste_impact == 15 * Hundredths(ud.food_waste)
        import_impact == 10 * Hundredths(oahu_factors.food.import_dependency)
        ag_impact ==
            10 * Hundredths(100 - oahu_factors.food.local_agriculture_capacity)
        tourism_food_factor == oahu_factors.food.tourist_dining_impact
    IN  Clamp(base_score - local_food_impact - plant_based_impact + seafood
              - food_waste_impact - import_impact - ag_impact
              - 5 * Hundredths(tourism_food_factor - 100))

calculate_food_impact(ud, oahu_factors) ==
    LET base_score == 100 * SU
        local_food_impact == 25 * Hundredths(100 - ud.local_food)
        plant_based_impact == 20 * Hundredths(100 - ud.plant_based)
        seafood == IF ud.seafood_sustainable THEN 15 * SU ELSE -(15 * SU)
        food_waste_impact == 15 * Hundredths(100 - ud.food_waste)
        import_impact == 10 * Hundredths(oahu_factors.food.import_dependency)
        ag_impact ==
            10 * Hundredths(100 - oahu_factors.food.local_agriculture_capacity)
        tourism_food_factor == oahu_factors.food.tourist_dining_impact
    IN  Clamp(base_score - local_food_impact - plant_based_impact + seafood
              - food_waste_impact - import_impact - ag_impact
              - 5 * Hundredths(tourism_food_factor - 100))

-----------------------------------------------------------------------------
(* Absolute impact estimators *)

\* transport carbon factors, in 1/100000 ton per mile
transport_carbon ==
    [ m \in TransportModes |->
        CASE m = "Rental EV" -> 10
          [] m = "Rental hybrid" -> 20
          [] m = "Rental economy car" -> 40
          [] m = "Rental SUV/large vehicle" -> 70
          [] m = "Public transportation/shuttle" -> 10
          [] m = "Mostly walking/biking" -> 1
          [] m = "Rideshare/taxi" -> 30 ]

\* accommodation carbon factors, in 1/1000 ton per night
accommodation_carbon ==
    [ a \in AccommodationTypes |->
        CASE a = "Eco-certified hotel/resort" -> 10
          [] a = "Standard hotel/resort" -> 30
          [] a = "Luxury resort" -> 60
          [] a = "Vacation rental" -> 20
          [] a = "Hostel/budget accommodation" -> 10
          [] a = "Camping/outdoor lodging" -> 5 ]

\* activity_carbon with nothing counted for a label that is no key
activity_carbon_known_only(activity) ==
    CASE activity = "Snorkeling/scuba on coral reefs" -> 5
      [] activity = "Motorized water sports (jet ski, motorboats)" -> 30
      [] activity = "Hiking on maintained trails" -> 1
      [] activity = "Off-trail hiking/exploration" -> 1
      [] activity = "Wildlife viewing tours" -> 10
      [] activity = "ATV/off-road vehicle tours" -> 40
      [] activity = "Shopping/dining" -> 5
      [] activity = "Cultural sites/museums" -> 2
      [] activity = "Beach relaxation" -> 1
      [] activity = "Surfing/paddleboarding" -> 1
      [] OTHER -> 0

\* activity carbon factor of one label, in 1/1000 ton; .get(activity, 0.01)
activity_carbon(activity) ==
    CASE activity = "Snorkeling/scuba on coral reefs" -> 5
      [] activity = "Motorized water sports (jet ski, motorboats)" -> 30
      [] activity = "Hiking on maintained trails" -> 1
      [] activity = "Off-trail hiking/exploration" -> 1
      [] activity = "Wildlife viewing tours" -> 10
      [] activity = "ATV/off-road vehicle tours" -> 40
      [] activity = "Shopping/dining" -> 5
      [] activity = "Cultural sites/museums" -> 2
      [] activity = "Beach relaxation" -> 1
      [] activity = "Surfing/paddleboarding" -> 1
      [] OTHER -> 10

\* sum(activity_carbon.get(activity, 0.01) for activity in activities)
RECURSIVE SumCarbon(_)
SumCarbon(activities) ==
    IF activities = {} THEN 0
    ELSE LET activity == CHOOSE x \in activities : TRUE
         IN  activity_carbon(activity) + SumCarbon(activities \ {activity})

\* diet_adjustment with the tiers closed above (<= 0.3, <= 0.7)
diet_adjustment_inclusive(plant_based) ==
    IF plant_based <= 30 THEN 20
    ELSE IF plant_based <= 70 THEN 15
    ELSE 8

\* the diet tier of a plant-based share, in tenths: 2.0 below 0.3, 1.5 below
\* 0.7, else 0.8
diet_adjustment(plant_based) ==
    IF plant_based < 30 THEN 20
    ELSE IF plant_based < 70 THEN 15
    ELSE 8

\* tons of CO2 for the trip, in carbon units, from the sum the generator of
\* line 691 has accumulated over the activities
carbon_footprint_from(ud, oahu_factors, activity_sum) ==
    LET carbon_factors == oahu_factors.carbon
        days == ud.duration
        \* flight_distance * flight_emissions_factor / 1000
        flight_emissions ==
            ud.flight_distance * carbon_factors.flight_emissions_factor
              * (CU \div 100000)
        daily_miles == oahu_factors.transport.avg_tourist_travel_distance
        local_emissions ==
            (daily_miles \div 100) * transport_carbon[ud.local_transport] * days
              * (CU \div 100000)
        accommodation_emissions ==
            accommodation_carbon[ud.accommodation_type] * days * (CU \div 1000)
        tier == diet_adjustment(ud.plant_based)
        \* food_emissions_base * tier * (1.5 - local_food * 0.5) * days
        \*   = 0.01 * tier/10 * (300 - local_food)/200 * days
        food_emissions ==
            tier * (300 - ud.local_food) * days * (CU \div 200000)
        \* sum(...) * (days / 3)
        activities_emissions ==
            activity_sum * days * (CU \div 3000)
        total_emissions ==
            flight_emissions + local_emissions + accommodation_emissions
              + food_emissions + activities_emissions
    \* total_emissions * island_multiplier (every term is a multiple of 25)
    IN  ((total_emissions \div 25) * carbon_factors.island_multiplier) \div 4

\* tons of CO2 for the trip, in carbon units
calculate_carbon_footprint(ud, oahu_factors) ==
    carbon_footprint_from(ud, oahu_factors, SumCarbon(ud.activities))

\* accommodation water factors, gallons per person per day
accommodation_water ==
    [ a \in AccommodationTypes |->
        CASE a = "Eco-certified hotel/resort" -> 80
          [] a = "Standard hotel/resort" -> 150
          [] a = "Luxury resort" -> 250
          [] a = "Vacation rental" -> 100
          [] a = "Hostel/budget accommodation" -> 70
          [] a = "Camping/outdoor lodging" -> 30 ]

\* calculate_water_usage with the conservation factor 1 - water_conservation * 3
calculate_water_usage_overconserving(ud, oahu_factors) ==
    LET base_water == accommodation_water[ud.accommodation_type]
        shower_water == ud.shower_length * 25
        pool_water == ud.pool_usage * 15
        conservation_factor == 1000 - 30 * ud.water_conservation
        linen_factor == IF ud.linen_reuse THEN 9 ELSE 10
        total_water ==
            (base_water + shower_water + pool_water) * conservation_factor
              * linen_factor * (oahu_factors.water.tourism_water_factor \div 100)
    IN  RoundHalfEven(total_water, 10000)

\* gallons per day, rounded to an integer
calculate_water_usage(ud, oahu_factors) ==
    LET base_water == accommodation_water[ud.accommodation_type]
        shower_water == ud.shower_length * 25
        pool_water == ud.pool_usage * 15
        \* 1 - water_conservation * 0.3, in thousandths
        conservation_factor == 1000 - 3 * ud.water_conservation
        \* in tenths
        linen_factor == IF ud.linen_reuse THEN 9 ELSE 10
        total_water ==
            (base_water + shower_water + pool_water) * conservation_factor
              * linen_factor * (oahu_factors.water.tourism_water_factor \div 100)
    IN  RoundHalfEven(total_water, 10000)

\* pounds per day rounded to one decimal, in tenths of a pound
calculate_waste_generation(ud, oahu_factors) ==
    LET \* base_waste * bottle_factor (0.8 or 1.2) = 3.2 or 4.8, over 1.6
        bottle == IF ud.reusable_bottle THEN 2 ELSE 3
        \* in tenths
        bag_factor == IF ud.reusable_bag THEN 9 ELSE 11
        \* 1 - refuse_single_use * 0.4 = (250 - p) / 250
        single_use == 250 - ud.refuse_single_use
        \* in tenths
        cleanup_factor == IF ud.cleanup_participation THEN 9 ELSE 10
        \* 1 - food_waste * 0.3, in thousandths
        food_waste_factor == 1000 - 3 * ud.food_waste
        \* 1.6 * tourism_waste_factor = 1.6 * 1.8 = 288/100, and
        \* 288 / (100 * 10 * 10 * 250 * 1000) = 18 / 15625000
        tourism == (16 * oahu_factors.waste.tourism_waste_factor) \div 160
        total_waste ==
            tourism * bottle * bag_factor * cleanup_factor * single_use
              * food_waste_factor
    IN  RoundHalfEven(total_waste, 15625000)

-----------------------------------------------------------------------------
(* calculate_impact *)

\* n / d as Python evaluates it: ZeroDivisionError for d = 0, else the
\* quotient, kept exact as a pair
Divide(n, d) ==
    IF d = 0 THEN [kind |-> "ZeroDivisionError", num |-> n, den |-> d]
    ELSE [kind |-> "number", num |-> n, den |-> d]

\* the literal 0 of the else branch
Zero == [kind |-> "number", num |-> 0, den |-> 1]

\* weights with transport at 0.25
weights_heavier_transport ==
    [ transport |-> 25, accommodation |-> 20, activities |-> 15,
      water |-> 15, waste |-> 15, food |-> 15 ]

\* the weights of the weighted average, in hundredths
weights ==
    [ transport |-> 20, accommodation |-> 20, activities |-> 15,
      water |-> 15, waste |-> 15, food |-> 15 ]

\* weight * score, in score units (every score is a multiple of 20 units)
Weighted(category, score) == (score \div 20) * (weights[category] \div 5)

\* breakdown_entry without the guard on overall_score
breakdown_entry_unguarded(category, score, overall_score) ==
    Divide(Weighted(category, score), overall_score)

\* breakdown_entry without the weight: c_score / overall_score
breakdown_entry_unweighted(category, score, overall_score) ==
    IF overall_score > 0
    THEN Divide(score, overall_score)
    ELSE Zero

\* weights[c] * c_score / overall_score if overall_score > 0 else 0
breakdown_entry(category, score, overall_score) ==
    IF overall_score > 0
    THEN Divide(Weighted(category, score), overall_score)
    ELSE Zero

\* lines 291-333: the overall score and the result record, from the six
\* category scores and the three metrics
compile_results(sc, carbon_footprint, water_usage, waste_generation) ==
    LET weighted_sum ==
            Weighted("transport", sc.transport)
              + Weighted("accommodation", sc.accommodation)
              + Weighted("activities", sc.activities)
              + Weighted("water", sc.water)
              + Weighted("waste", sc.waste)
              + Weighted("food", sc.food)
        overall_score == RoundHalfEven(weighted_sum, SU)
        impact_breakdown ==
            [ c \in DOMAIN weights |->
                breakdown_entry(c, sc[c], overall_score) ]
    IN  IF \E c \in DOMAIN weights :
              impact_breakdown[c].kind = "ZeroDivisionError"
        THEN [kind |-> "ZeroDivisionError"]
        ELSE
        [ kind |-> "result",
          overall_score |-> overall_score,
          transport_score |-> sc.transport,
          accommodation_score |-> sc.accommodation,
          activities_score |-> sc.activities,
          water_score |-> sc.water,
          waste_score |-> sc.waste,
          food_score |-> sc.food,
          carbon_footprint |-> carbon_footprint,
          water_usage |-> water_usage,
          waste_generation |-> waste_generation,
          impact_breakdown |-> impact_breakdown ]

\* the six category scores of a record whose labels are keys
category_scores(ud, oahu_factors) ==
    [ transport |-> calculate_transport_impact(ud, oahu_factors),
      accommodation |-> calculate_accommodation_impact(ud, oahu_factors),
      activities |-> calculate_activities_impact(ud, oahu_factors),
      water |-> calculate_water_impact(ud, oahu_factors),
      waste |-> calculate_waste_impact(ud, oahu_factors),
      food |-> calculate_food_impact(ud, oahu_factors) ]

\* the body of calculate_impact for a record whose labels are keys
impact_of(ud, oahu_factors) ==
    compile_results(category_scores(ud, oahu_factors),
                    calculate_carbon_footprint(ud, oahu_factors),
                    calculate_water_usage(ud, oahu_factors),
                    calculate_waste_generation(ud, oahu_factors))

\* calculate_impact with the lookups defaulting (.get(label, 1.0)) to the
\* multiplier of the economy car and of the standard hotel
calculate_impact_defaulting(ud) ==
    impact_of([ud EXCEPT
                 !.local_transport =
                    IF @ \in TransportModes THEN @ ELSE "Rental economy car",
                 !.accommodation_type =
                    IF @ \in AccommodationTypes THEN @
                    ELSE "Standard hotel/resort"],
              get_oahu_environmental_factors)

\* calculate_impact with the transport scorer's base_score kept between
\* calls (a module-level accumulator): the deductions of a call start from
\* the transport score the call before returned
calculate_impact_carry(ud) ==
    LET oahu_factors == get_oahu_environmental_factors
        fresh == impact_of(ud, oahu_factors)
    IN  IF Raises_transport(ud)
        THEN [kind |-> "KeyError", key |-> ud.local_transport]
        ELSE IF Raises_accommodation(ud)
        THEN [kind |-> "KeyError", key |-> ud.accommodation_type]
        ELSE IF results.kind = "result"
        THEN [fresh EXCEPT !.transport_score =
                Clamp(results.transport_score - (100 * SU - @))]
        ELSE fresh

\* what a call returns or raises.  The transport scorer runs first and raises
\* KeyError for an unknown local_transport; the accommodation scorer runs
\* second and raises KeyError for an unknown accommodation_type.  Nothing
\* else is looked at before computing: there is no range check.
calculate_impact(ud) ==
    LET oahu_factors == get_oahu_environmental_factors
    IN  IF Raises_transport(ud)
        THEN [kind |-> "KeyError", key |-> ud.local_transport]
        ELSE IF Raises_accommodation(ud)
        THEN [kind |-> "KeyError", key |-> ud.accommodation_type]
        ELSE impact_of(ud, oahu_factors)

-----------------------------------------------------------------------------
(* get_recommendations *)

\* one advisory; its description is a fixed text per title and is left out
Advisory(category, title) == [category |-> category, title |-> title]

\* recommendations.append(a) if cond
AppendIf(recs, cond, a) == IF cond THEN Append(recs, a) ELSE recs

\* general_recommendations appending whatever the number of specific ones
general_recommendations_always(recs) ==
    recs \o
    << Advisory("general", "Support Hawaiian conservation efforts"),
       Advisory("general", "Learn about Hawaiian culture") >>

\* general_recommendations appending only the first general advisory
general_recommendations_single(recs) ==
    IF Len(recs) < 3
    THEN Append(recs,
                Advisory("general", "Support Hawaiian conservation efforts"))
    ELSE recs

\* general_recommendations with the threshold off by one (<= 3)
general_recommendations_upto3(recs) ==
    IF Len(recs) <= 3
    THEN recs \o
         << Advisory("general", "Support Hawaiian conservation efforts"),
            Advisory("general", "Learn about Hawaiian culture") >>
    ELSE recs

\* the two general advisories, appended when few specific ones were produced
general_recommendations(recs) ==
    IF Len(recs) < 3
    THEN recs \o
         << Advisory("general", "Support Hawaiian conservation efforts"),
            Advisory("general", "Learn about Hawaiian culture") >>
    ELSE recs

\* the thirteen rules, in the order of the source
rule_recommendations(ud) ==
    LET r1 == AppendIf(<<>>,
                ud.local_transport \in
                  {"Rental SUV/large vehicle", "Rental economy car"},
                Advisory("transportation", "Consider sustainable transportation"))
        r2 == AppendIf(r1, ud.flight_distance > 3000,
                Advisory("transportation", "Offset your flight emissions"))
        r3 == AppendIf(r2,
                /\ ud.accommodation_type \in
                     {"Standard hotel/resort", "Luxury resort"}
                /\ ud.ac_usage > 6,
                Advisory("accommodation", "Reduce AC usage"))
        r4 == AppendIf(r3, ~ud.linen_reuse,
                Advisory("accommodation", "Reuse hotel towels and linens"))
        r5 == AppendIf(r4, ud.shower_length > 5,
                Advisory("water", "Take shorter showers"))
        r6 == AppendIf(r5, ud.pool_usage > 3,
                Advisory("water", "Balance pool and ocean time"))
        r7 == AppendIf(r6, ~ud.reusable_bottle,
                Advisory("waste", "Bring a reusable water bottle"))
        r8 == AppendIf(r7, ~ud.cleanup_participation,
                Advisory("waste", "Join a beach cleanup"))
        r9 == AppendIf(r8, ud.local_food < 50,
                Advisory("food", "Eat more local food"))
        r10 == AppendIf(r9, ~ud.seafood_sustainable,
                Advisory("food", "Choose sustainable seafood"))
        r11 == AppendIf(r10,
                \/ "Motorized water sports (jet ski, motorboats)" \in ud.activities
                \/ "ATV/off-road vehicle tours" \in ud.activities,
                Advisory("activities", "Choose low-impact activities"))
        r12 == AppendIf(r11,
                /\ "Snorkeling/scuba on coral reefs" \in ud.activities
                /\ ~ud.reef_safe,
                Advisory("activities", "Use reef-safe sunscreen"))
        r13 == AppendIf(r12,
                /\ "Wildlife viewing tours" \in ud.activities
                /\ ~ud.wildlife_distance,
                Advisory("activities", "Maintain distance from wildlife"))
    IN  r13

\* get_recommendations adding the general advisories for a low overall score
\* as well
get_recommendations_by_score(ud, res) ==
    IF res.kind = "result" /\ res.overall_score < 50
                /\ Len(rule_recommendations(ud)) >= 3
    THEN rule_recommendations(ud) \o
         << Advisory("general", "Support Hawaiian conservation efforts"),
            Advisory("general", "Learn about Hawaiian culture") >>
    ELSE general_recommendations(rule_recommendations(ud))

\* get_recommendations returning at most the first five advisories
get_recommendations_top5(ud, res) ==
    LET recs == general_recommendations(rule_recommendations(ud))
    IN  SubSeq(recs, 1, Min(5, Len(recs)))

\* get_recommendations with the sunscreen and the wildlife rule looking at
\* their flag alone, whatever the activities
get_recommendations_by_flag(ud, res) ==
    general_recommendations(
        rule_recommendations(
            [ud EXCEPT !.activities =
                @ \cup { "Snorkeling/scuba on coral reefs",
                         "Wildlife viewing tours" }]))

\* get_recommendations with the numeric thresholds inclusive (>= 3000,
\* >= 6, >= 5, >= 3, <= 0.5), over the whole numbers and percents of the form
get_recommendations_inclusive(ud, res) ==
    general_recommendations(
        rule_recommendations(
            [ud EXCEPT !.flight_distance = @ + 1, !.ac_usage = @ + 1,
                       !.shower_length = @ + 1, !.pool_usage = @ + 1,
                       !.local_food = @ - 1]))

\* the results parameter is never read
get_recommendations(ud, res) == general_recommendations(rule_recommendations(ud))

\* the titles of the rule advisories, in the order of the rules
RuleTitles ==
    << "Consider sustainable transportation", "Offset your flight emissions",
       "Reduce AC usage", "Reuse hotel towels and linens",
       "Take shorter showers", "Balance pool and ocean time",
       "Bring a reusable water bottle", "Join a beach cleanup",
       "Eat more local food", "Choose sustainable seafood",
       "Choose low-impact activities", "Use reef-safe sunscreen",
       "Maintain distance from wildlife" >>

NumRules == Len(RuleTitles)

\* the condition of each rule, in the order of the rules
rule_matches(ud) ==
    << ud.local_transport \in
         { "Rental SUV/large vehicle", "Rental economy car" },
       ud.flight_distance > 3000,
       ud.accommodation_type \in { "Standard hotel/resort", "Luxury resort" }
         /\ ud.ac_usage > 6,
       ~ud.linen_reuse,
       ud.shower_length > 5,
       ud.pool_usage > 3,
       ~ud.reusable_bottle,
       ~ud.cleanup_participation,
       ud.local_food < 50,
       ~ud.seafood_sustainable,
       "Motorized water sports (jet ski, motorboats)" \in ud.activities
         \/ "ATV/off-road vehicle tours" \in ud.activities,
       "Snorkeling/scuba on coral reefs" \in ud.activities /\ ~ud.reef_safe,
       "Wildlife viewing tours" \in ud.activities /\ ~ud.wildlife_distance >>

\* the advisories the results page shows: recommendations[:5]
display_recommendations(recs) == SubSeq(recs, 1, Min(5, Len(recs)))

-----------------------------------------------------------------------------
(* The records the collaborator hands to the engine *)

\* the values the widgets of input_form start with
FormDefaults ==
    [ duration |-> 7, flight_distance |-> 3000,
      local_transport |-> "Rental EV",
      accommodation_type |-> "Eco-certified hotel/resort",
      ac_usage |-> 6, water_conservation |-> 50, linen_reuse |-> TRUE,
      reusable_bottle |-> TRUE, reusable_bag |-> TRUE,
      refuse_single_use |-> 50, cleanup_participation |-> FALSE,
      plant_based |-> 40, local_food |-> 50, seafood_sustainable |-> TRUE,
      food_waste |-> 70, shower_length |-> 8, pool_usage |-> 2,
      activities |-> { "Snorkeling/scuba on coral reefs",
                       "Hiking on maintained trails", "Beach relaxation" },
      reef_safe |-> TRUE, wildlife_distance |-> TRUE, eco_tours |-> TRUE ]

\* the most sustainable choice of every widget
MostSustainable ==
    [ duration |-> 7, flight_distance |-> 3000,
      local_transport |-> "Mostly walking/biking",
      accommodation_type |-> "Eco-certified hotel/resort",
      ac_usage |-> 0, water_conservation |-> 100, linen_reuse |-> TRUE,
      reusable_bottle |-> TRUE, reusable_bag |-> TRUE,
      refuse_single_use |-> 100, cleanup_participation |-> TRUE,
      plant_based |-> 100, local_food |-> 100, seafood_sustainable |-> TRUE,
      food_waste |-> 100, shower_length |-> 1, pool_usage |-> 0,
      activities |-> { "Beach relaxation" },
      reef_safe |-> TRUE, wildlife_distance |-> TRUE, eco_tours |-> TRUE ]

\* the least sustainable choice of every widget
LeastSustainable ==
    [ duration |-> 7, flight_distance |-> 10000,
      local_transport |-> "Rental SUV/large vehicle",
      accommodation_type |-> "Luxury resort",
      ac_usage |-> 24, water_conservation |-> 0, linen_reuse |-> FALSE,
      reusable_bottle |-> FALSE, reusable_bag |-> FALSE,
      refuse_single_use |-> 0, cleanup_participation |-> FALSE,
      plant_based |-> 0, local_food |-> 0, seafood_sustainable |-> FALSE,
      food_waste |-> 0, shower_length |-> 30, pool_usage |-> 8,
      activities |-> { "Motorized water sports (jet ski, motorboats)",
                       "ATV/off-road vehicle tours" },
      reef_safe |-> FALSE, wildlife_distance |-> FALSE, eco_tours |-> FALSE ]

Profiles == { FormDefaults, MostSustainable, LeastSustainable }

\* resolution of the percentage grid
PctSteps == 4

\* largest number of activities selected at once (besides all of them)
MaxActivities == 3

\* resolution of the score grid of the aggregation step
ScoreSteps == 2

\* number of calls of calculate_impact in a run of SpecCalls
MaxCalls == 3

PercentVals ==
    { (100 * i) \div PctSteps : i \in 0..PctSteps } \cup { 30, 49, 50, 70 }

DurationVals == { 1, 7, 30 }

FlightVals == { 0, 300, 3000, 3100, 5000, 10000 }

AcVals == { 0, 6, 7, 24 }

ShowerVals == { 0, 1, 2, 5, 6, 8, 15, 30 }

PoolVals == { 0, 2, 3, 4, 8 }

ActivitySets(Options) ==
    { A \in SUBSET Options : Cardinality(A) <= MaxActivities }
      \cup { Options }

\* a well-formed TripParameters record (section 3 of the specification)
Valid(ud) ==
    /\ ud.duration >= 1
    /\ ud.flight_distance >= 0
    /\ ud.local_transport \in TransportModes
    /\ ud.accommodation_type \in AccommodationTypes
    /\ ud.ac_usage \in 0..24
    /\ \A f \in { ud.water_conservation, ud.refuse_single_use, ud.plant_based,
                  ud.local_food, ud.food_waste } : f \in 0..100
    /\ ud.shower_length >= 0
    /\ ud.pool_usage >= 0
    /\ ud.activities \subseteq ActivityOptions

\* the fields one scorer reads, over their whole grid, the rest as in p
TransportInputs(p) ==
    { [p EXCEPT !.duration = d, !.flight_distance = f, !.local_transport = t] :
        d \in DurationVals, f \in FlightVals, t \in TransportModes }

AccommodationInputs(p) ==
    { [p EXCEPT !.accommodation_type = a, !.ac_usage = h,
                !.water_conservation = w, !.linen_reuse = l] :
        a \in AccommodationTypes, h \in AcVals, w \in PercentVals,
        l \in BOOLEAN }

ActivitiesInputs(p) ==
    { [p EXCEPT !.activities = A, !.eco_tours = e, !.wildlife_distance = w,
                !.reef_safe = r] :
        A \in ActivitySets(ActivityOptions), e \in BOOLEAN, w \in BOOLEAN, r \in BOOLEAN }

WaterInputs(p) ==
    { [p EXCEPT !.shower_length = s, !.water_conservation = w,
                !.linen_reuse = l, !.pool_usage = h] :
        s \in ShowerVals, w \in PercentVals, l \in BOOLEAN, h \in PoolVals }

WasteInputs(p) ==
    { [p EXCEPT !.reusable_bottle = b, !.reusable_bag = g,
                !.refuse_single_use = r, !.cleanup_participation = c] :
        b \in BOOLEAN, g \in BOOLEAN, r \in PercentVals, c \in BOOLEAN }

FoodInputs(p) ==
    { [p EXCEPT !.local_food = l, !.plant_based = v,
                !.seafood_sustainable = s, !.food_waste = w] :
        l \in PercentVals, v \in PercentVals, s \in BOOLEAN,
        w \in PercentVals }

ValidInputs(P) ==
    UNION { TransportInputs(p) \cup AccommodationInputs(p)
              \cup ActivitiesInputs(p) \cup WaterInputs(p)
              \cup WasteInputs(p) \cup FoodInputs(p) : p \in P }

\* records that break the contract in one field
FractionFields ==
    { "water_conservation", "refuse_single_use", "plant_based", "local_food",
      "food_waste" }

OutOfRangeInputs(P) ==
    UNION { { [p EXCEPT ![f] = v] : f \in FractionFields, v \in { -10, 150 } }
              \cup { [p EXCEPT !.duration = d] : d \in { 0, -1 } } :
            p \in P }

UnknownLabelInputs(P) ==
    UNION { { [p EXCEPT !.local_transport = "Helicopter"],
              [p EXCEPT !.accommodation_type = "Houseboat"],
              [p EXCEPT !.local_transport = "Helicopter",
                        !.accommodation_type = "Houseboat"] } :
            p \in P }

\* the records submitted: those around the profiles P
Inputs(P) == ValidInputs(P) \cup OutOfRangeInputs(P) \cup UnknownLabelInputs(P)

\* ud is, but for the fields F, one of the profiles
AroundProfile(ud, F) ==
    \E p \in Profiles : \A f \in (DOMAIN p) \ F : ud[f] = p[f]

\* the fields the water scorer and the accommodation scorer read
WaterFields ==
    { "shower_length", "water_conservation", "linen_reuse", "pool_usage" }

AccommodationFields ==
    { "accommodation_type", "ac_usage", "water_conservation", "linen_reuse" }

-----------------------------------------------------------------------------
(* State *)

Absent == [kind |-> "absent"]

\* an earlier call, remembered: its record and what it produced
Call(ud, res, recs) ==
    [kind |-> "call", user_data |-> ud, results |-> res,
     recommendations |-> recs, n |-> calls]

\* the list get_recommendations returns for the record ud and the results
\* argument res, kept with the argument it was called with
Derived(ud, res) ==
    [kind |-> "list", items |-> get_recommendations(ud, res), given |-> res]

\* the handler of the form's submit button, lines 1347-1379, as the
\* collaborator's call with the record ud: the impact is computed, and the
\* recommendations from the record and the result just computed.  An
\* exception of calculate_impact ends the handler before get_recommendations.
input_form(ud) ==
    /\ results' = calculate_impact(ud)
    /\ recommendations' =
         IF results'.kind = "result"
         THEN Derived(ud, results')
         ELSE Absent

\* the collaborator submits the record in user_data
Submit ==
    /\ results = Absent
    /\ input_form(user_data)
    /\ UNCHANGED <<user_data, prev, scores, calls, frames>>

\* the collaborator submits the record again with another shower length
ChangeShower ==
    /\ results # Absent
    /\ \E s \in ShowerVals :
         /\ s # user_data.shower_length
         /\ AroundProfile(user_data, WaterFields)
         /\ user_data' = [user_data EXCEPT !.shower_length = s]
    /\ input_form(user_data')
    /\ prev' = Call(user_data, results, recommendations)
    /\ UNCHANGED <<scores, calls, frames>>

\* the collaborator submits the record again with the linen choice flipped
ToggleLinen ==
    /\ results # Absent
    /\ \/ AroundProfile(user_data, WaterFields)
       \/ AroundProfile(user_data, AccommodationFields)
    /\ user_data' = [user_data EXCEPT !.linen_reuse = ~@]
    /\ input_form(user_data')
    /\ prev' = Call(user_data, results, recommendations)
    /\ UNCHANGED <<scores, calls, frames>>

Init ==
    /\ user_data \in Inputs(Profiles)
    /\ results = Absent
    /\ recommendations = Absent
    /\ prev = Absent
    /\ scores = Absent
    /\ calls = 0
    /\ frames = <<>>

Next == Submit \/ ChangeShower \/ ToggleLinen

Spec == Init /\ [][Next]_vars

-----------------------------------------------------------------------------
(* SpecRules: the rule set over every combination of the rules' conditions *)

RuleInputs(p) ==
    { [p EXCEPT
         !.local_transport = t, !.flight_distance = f,
         !.accommodation_type = a, !.ac_usage = h, !.linen_reuse = l,
         !.shower_length = s, !.pool_usage = q, !.reusable_bottle = b,
         !.cleanup_participation = c, !.local_food = o,
         !.seafood_sustainable = d, !.activities = A, !.reef_safe = r,
         !.wildlife_distance = w] :
        t \in { "Rental EV", "Rental SUV/large vehicle" },
        f \in { 3000, 3100 },
        a \in { "Eco-certified hotel/resort", "Standard hotel/resort",
                "Luxury resort" },
        h \in { 6, 7 }, l \in BOOLEAN, s \in { 5, 6 }, q \in { 3, 4 },
        b \in BOOLEAN, c \in BOOLEAN, o \in { 49, 50 }, d \in BOOLEAN,
        A \in SUBSET { "ATV/off-road vehicle tours",
                       "Snorkeling/scuba on coral reefs",
                       "Wildlife viewing tours" },
        r \in BOOLEAN, w \in BOOLEAN }

InitRules ==
    /\ user_data \in RuleInputs(FormDefaults)
    /\ results = Absent
    /\ recommendations = Absent
    /\ prev = Absent
    /\ scores = Absent
    /\ calls = 0
    /\ frames = <<>>

NextRules == Submit

SpecRules == InitRules /\ [][NextRules]_vars

-----------------------------------------------------------------------------
(* SpecAgg: the aggregation step of calculate_impact (lines 291-333) over   *)
(* category scores drawn from the scorers' range [0,100].  With the Oahu   *)
(* table the activities scorer never returns less than 52, so a call of    *)
(* calculate_impact cannot reach overall_score = 0; the step is therefore  *)
(* exercised on its own.                                                   *)

\* 0, one point, and ScoreSteps even steps up to 100 points (multiples of 20
\* units, as every score is)
ScoreGrid ==
    { 0, SU } \cup
    { ((((100 * SU) \div 20) * i) \div ScoreSteps) * 20 : i \in 1..ScoreSteps }

InitAgg ==
    /\ scores \in [DOMAIN weights -> ScoreGrid]
    /\ user_data = Absent
    /\ results = Absent
    /\ recommendations = Absent
    /\ prev = Absent
    /\ calls = 0
    /\ frames = <<>>

\* lines 291-333 applied to the scores; the three metrics do not enter the
\* aggregation and are passed as 0
Aggregate ==
    /\ results = Absent
    /\ results' = compile_results(scores, 0, 0, 0)
    /\ UNCHANGED <<user_data, recommendations, prev, scores, calls, frames>>

NextAgg == Aggregate

SpecAgg == InitAgg /\ [][NextAgg]_vars

-----------------------------------------------------------------------------
(* SpecCalls: a collaborator calling the two entry points again and again,  *)
(* remembering one earlier call to compare with                             *)

CallInputs ==
    Profiles \cup
    { [p EXCEPT !.shower_length = s] : p \in Profiles, s \in { 5, 6 } }

InitCalls ==
    /\ user_data \in CallInputs
    /\ results = Absent
    /\ recommendations = Absent
    /\ prev = Absent
    /\ scores = Absent
    /\ calls = 0
    /\ frames = <<>>

\* a call of calculate_impact and of get_recommendations with a record
Invoke ==
    /\ calls < MaxCalls
    /\ calls' = calls + 1
    /\ \E ud \in CallInputs : user_data' = ud
    /\ input_form(user_data')
    /\ UNCHANGED <<prev, scores, frames>>

\* a call of get_recommendations with the current record and some other
\* results argument: the remembered call's results, or none
Recommend ==
    /\ results.kind = "result"
    /\ \E r \in { Absent } \cup (IF prev = Absent THEN {} ELSE { prev.results }) :
         recommendations' = Derived(user_data, r)
    /\ UNCHANGED <<user_data, results, prev, scores, calls, frames>>

\* the collaborator keeps the current call to compare later ones with
Remember ==
    /\ results.kind = "result"
    /\ prev' = Call(user_data, results, recommendations)
    /\ UNCHANGED <<user_data, results, recommendations, scores, calls, frames>>

NextCalls == Invoke \/ Recommend \/ Remember

SpecCalls == InitCalls /\ [][NextCalls]_vars

-----------------------------------------------------------------------------
(* SpecMetrics: the three impact estimators over the smallest and the       *)
(* largest value of every field they read (the widgets' ends for the fields *)
(* the specification leaves unbounded above)                                *)

\* an activity label that is no key of the activity tables
UnlistedActivity == "Helicopter tour"

\* the fields calculate_carbon_footprint reads
CarbonInputs(p) ==
    { [p EXCEPT !.duration = d, !.flight_distance = f, !.local_transport = t,
                !.accommodation_type = a, !.plant_based = v,
                !.local_food = l, !.activities = A] :
        d \in { 1, 30 }, f \in { 0, 10000 }, t \in TransportModes,
        a \in AccommodationTypes, v \in { 0, 30, 70, 100 }, l \in { 0, 100 },
        A \in { {}, ActivityOptions } \cup { { x } : x \in ActivityOptions }
               \cup { { UnlistedActivity },
                      { UnlistedActivity, "Beach relaxation" } } }

\* the fields calculate_water_usage reads
WaterUsageInputs(p) ==
    { [p EXCEPT !.accommodation_type = a, !.shower_length = s,
                !.pool_usage = h, !.water_conservation = w,
                !.linen_reuse = l] :
        a \in AccommodationTypes, s \in { 0, 30 }, h \in { 0, 8 },
        w \in { 0, 100 }, l \in BOOLEAN }

\* the fields calculate_waste_generation reads
WasteGenerationInputs(p) ==
    { [p EXCEPT !.reusable_bottle = b, !.reusable_bag = g,
                !.refuse_single_use = r, !.cleanup_participation = c,
                !.food_waste = w] :
        b \in BOOLEAN, g \in BOOLEAN, r \in { 0, 100 }, c \in BOOLEAN,
        w \in { 0, 100 } }

MetricInputs(P) ==
    UNION { CarbonInputs(p) \cup WaterUsageInputs(p)
              \cup WasteGenerationInputs(p) : p \in P }

InitMetrics ==
    /\ user_data \in MetricInputs({ MostSustainable, LeastSustainable })
    /\ results = Absent
    /\ recommendations = Absent
    /\ prev = Absent
    /\ scores = Absent
    /\ calls = 0
    /\ frames = <<>>

NextMetrics == Submit

SpecMetrics == InitMetrics /\ [][NextMetrics]_vars

-----------------------------------------------------------------------------
(* SpecExtremes: the records that take, in every group of fields one scorer *)
(* reads, the ends of the widgets' ranges, combined over all six scorers.   *)

\* the records at the ends of the ranges: every scorer's fields at their
\* least and most sustainable values, the choices of one scorer independent
\* of those of the others (water_conservation and linen_reuse are read by
\* two scorers and vary on their own)
ExtremeInputs(p) ==
    { [p EXCEPT !.flight_distance = f, !.local_transport = t,
                !.accommodation_type = a, !.ac_usage = h,
                !.water_conservation = wc, !.linen_reuse = l,
                !.shower_length = sp[1], !.pool_usage = sp[2],
                !.activities = A,
                !.eco_tours = e, !.wildlife_distance = e, !.reef_safe = e,
                !.reusable_bottle = b, !.reusable_bag = b,
                !.refuse_single_use = r, !.cleanup_participation = c,
                !.local_food = d, !.plant_based = d, !.food_waste = d,
                !.seafood_sustainable = sf] :
        f \in { 0, 10000 },
        t \in { "Rental SUV/large vehicle", "Public transportation/shuttle",
                "Mostly walking/biking" },
        a \in { "Luxury resort", "Camping/outdoor lodging" },
        h \in { 0, 24 }, wc \in { 0, 100 }, l \in BOOLEAN,
        sp \in { <<0, 0>>, <<1, 0>>, <<30, 8>> },
        A \in { {}, { "ATV/off-road vehicle tours" }, { "Beach relaxation" } },
        e \in BOOLEAN, b \in BOOLEAN, r \in { 0, 100 }, c \in BOOLEAN,
        d \in { 0, 100 }, sf \in BOOLEAN }

InitExtremes ==
    /\ user_data \in ExtremeInputs(FormDefaults)
    /\ results = Absent
    /\ recommendations = Absent
    /\ prev = Absent
    /\ scores = Absent
    /\ calls = 0
    /\ frames = <<>>

NextExtremes == Submit

SpecExtremes == InitExtremes /\ [][NextExtremes]_vars

-----------------------------------------------------------------------------
(* SpecSteps: invocations of the engine, statement by statement.  An        *)
(* invocation is what the submit handler runs for one record (lines 1375    *)
(* and 1376): calculate_impact(user_data), then get_recommendations with    *)
(* the record and the result.  Several invocations are in flight at once    *)
(* and their statements interleave.  A frame holds, for one invocation, the *)
(* position reached, the record as the caller passed it (given), the dict   *)
(* object the callee was handed (user_data, passed by reference), what has  *)
(* been returned, and the locals of the running call.                       *)

\* number of invocations in flight at once
MaxInvocations == 2

\* the locals of a call before its first statement
NoLocals ==
    [ oahu_factors |-> Absent,
      transport_score |-> 0, accommodation_score |-> 0,
      activities_score |-> 0, water_score |-> 0, waste_score |-> 0,
      food_score |-> 0, carbon_footprint |-> 0, water_usage |-> 0,
      waste_generation |-> 0,
      pending |-> {}, total |-> 0, recommendations |-> <<>> ]

\* a frame no invocation has used yet
Idle ==
    [ pc |-> "idle", given |-> Absent, user_data |-> Absent,
      results |-> Absent, recommendations |-> Absent, locals |-> NoLocals ]

\* total_scope with the running total declared global: every invocation
\* accumulates in the one module-level name
total_scope_module(p) == 1

\* the scope that holds the running total of the passes of invocation p:
\* the locals of its own call (total_activity_impact is assigned in the
\* function body, so Python makes it a local of every call)
total_scope(p) == p

\* an iteration that takes its element off the caller's collection as well
\* (while activities: activity = activities.pop())
iterate_popping(f, activity, amount) ==
    [f EXCEPT !.locals.pending = @ \ { activity },
              !.locals.total = @ + amount,
              !.user_data.activities = @ \ { activity }]

\* an iteration that neither moves on nor accumulates
iterate_stalled(f, activity, amount) == f

\* one iteration of a pass over the activities: the element is consumed from
\* the iterator and its amount added to the running total
iterate(f, activity, amount) ==
    [f EXCEPT !.locals.pending = @ \ { activity },
              !.locals.total = @ + amount]

\* the element a pass over the activities visits next
next_activity(pending) == CHOOSE activity \in pending : TRUE

\* the call returns or raises: its locals are gone
leave(f, pc) == [f EXCEPT !.pc = pc, !.locals = NoLocals]

\* the six category scores among the locals of calculate_impact
local_scores(l) ==
    [ transport |-> l.transport_score,
      accommodation |-> l.accommodation_score,
      activities |-> l.activities_score, water |-> l.water_score,
      waste |-> l.waste_score, food |-> l.food_score ]

\* the effect of the next statement of the invocation with the frame f,
\* whose locals are f.locals
step(f) ==
    LET ud == f.user_data
        l == f.locals
        oahu_factors == l.oahu_factors
    IN  CASE f.pc = "factors" ->
               [f EXCEPT !.pc = "transport",
                         !.locals.oahu_factors = get_oahu_environmental_factors]
          [] f.pc = "transport" ->
               IF Raises_transport(ud)
               THEN leave([f EXCEPT !.results =
                             [kind |-> "KeyError", key |-> ud.local_transport]],
                          "raised")
               ELSE [f EXCEPT !.pc = "accommodation",
                              !.locals.transport_score =
                                 calculate_transport_impact(ud, oahu_factors)]
          [] f.pc = "accommodation" ->
               IF Raises_accommodation(ud)
               THEN leave([f EXCEPT !.results =
                             [kind |-> "KeyError",
                              key |-> ud.accommodation_type]],
                          "raised")
               ELSE [f EXCEPT !.pc = "activities",
                              !.locals.accommodation_score =
                                 calculate_accommodation_impact(ud, oahu_factors)]
          [] f.pc = "activities" ->
               [f EXCEPT !.pc = "activities_loop",
                         !.locals.pending = ud.activities,
                         !.locals.total = 0]
          [] f.pc = "activities_loop" ->
               IF l.pending # {}
               THEN iterate(f, next_activity(l.pending),
                            activity_impacts(next_activity(l.pending),
                                             oahu_factors))
               ELSE [f EXCEPT !.pc = "water",
                              !.locals.total = 0,
                              !.locals.activities_score =
                                 activities_impact_from(ud, oahu_factors,
                                                        l.total)]
          [] f.pc = "water" ->
               [f EXCEPT !.pc = "waste",
                         !.locals.water_score =
                            calculate_water_impact(ud, oahu_factors)]
          [] f.pc = "waste" ->
               [f EXCEPT !.pc = "food",
                         !.locals.waste_score =
                            calculate_waste_impact(ud, oahu_factors)]
          [] f.pc = "food" ->
               [f EXCEPT !.pc = "carbon",
                         !.locals.food_score =
                            calculate_food_impact(ud, oahu_factors)]
          [] f.pc = "carbon" ->
               [f EXCEPT !.pc = "carbon_loop",
                         !.locals.pending = ud.activities,
                         !.locals.total = 0]
          [] f.pc = "carbon_loop" ->
               IF l.pending # {}
               THEN iterate(f, next_activity(l.pending),
                            activity_carbon(next_activity(l.pending)))
               ELSE [f EXCEPT !.pc = "water_usage",
                              !.locals.total = 0,
                              !.locals.carbon_footprint =
                                 carbon_footprint_from(ud, oahu_factors,
                                                       l.total)]
          [] f.pc = "water_usage" ->
               [f EXCEPT !.pc = "waste_generation",
                         !.locals.water_usage =
                            calculate_water_usage(ud, oahu_factors)]
          [] f.pc = "waste_generation" ->
               [f EXCEPT !.pc = "compile",
                         !.locals.waste_generation =
                            calculate_waste_generation(ud, oahu_factors)]
          [] f.pc = "compile" ->
               LET res == compile_results(local_scores(l), l.carbon_footprint,
                                          l.water_usage, l.waste_generation)
               IN  IF res.kind = "result"
                   THEN [leave(f, "rules") EXCEPT !.results = res]
                   ELSE [leave(f, "raised") EXCEPT !.results = res]
          [] f.pc = "rules" ->
               [f EXCEPT !.pc = "general",
                         !.locals.recommendations = rule_recommendations(ud)]
          [] f.pc = "general" ->
               [leave(f, "done") EXCEPT
                  !.recommendations =
                     [kind |-> "list",
                      items |-> general_recommendations(l.recommendations)]]

\* records the invocations are given besides the one the session holds: one
\* without activities, and one with a label that is no key
StepInputs ==
    { [MostSustainable EXCEPT !.activities = {}],
      [FormDefaults EXCEPT !.local_transport = "Helicopter"] }

Running(f) == f.pc \notin { "idle", "done", "raised" }

\* the collaborator starts an invocation, in a frame that is not running,
\* with the record of the session or with another one
Enter(p) ==
    /\ ~Running(frames[p])
    /\ \E ud \in StepInputs \cup { user_data } :
         frames' =
           [frames EXCEPT
              ![p] = [ pc |-> "factors", given |-> ud, user_data |-> ud,
                       results |-> Absent, recommendations |-> Absent,
                       locals |-> NoLocals ]]
    /\ UNCHANGED <<user_data, results, recommendations, prev, scores, calls>>

\* the invocation p runs its next statement on its locals, the running
\* total being the one of its scope
Step(p) ==
    /\ Running(frames[p])
    /\ LET q == total_scope(p)
           f == step([frames[p] EXCEPT
                        !.locals.total = frames[q].locals.total])
       IN  frames' =
             [frames EXCEPT
                ![p] = [f EXCEPT !.locals.total = frames[p].locals.total],
                ![q].locals.total = f.locals.total]
    /\ UNCHANGED <<user_data, results, recommendations, prev, scores, calls>>

\* the session holds an earlier submission; no invocation has started
InitSteps ==
    /\ user_data = FormDefaults
    /\ results = calculate_impact(FormDefaults)
    /\ recommendations = Derived(FormDefaults, results)
    /\ prev = Absent
    /\ scores = Absent
    /\ calls = 0
    /\ frames = [ p \in 1..MaxInvocations |-> Idle ]

NextSteps == \E p \in DOMAIN frames : Enter(p) \/ Step(p)

SpecSteps == InitSteps /\ [][NextSteps]_vars

-----------------------------------------------------------------------------
(* SpecTermination: one invocation at a time, over records with every       *)
(* selection of activities, the invocation in flight running on: the        *)
(* interpreter executes the next statement of a call that has one (nothing  *)
(* in the engine waits, blocks or yields).  Starting an invocation is the   *)
(* collaborator's choice and is not forced.                                 *)

\* the session's record: the form's defaults with a selection of activities
TerminationInputs ==
    { [FormDefaults EXCEPT !.activities = A] :
        A \in ActivitySets({ "Snorkeling/scuba on coral reefs",
                             "Hiking on maintained trails",
                             "Beach relaxation",
                             "ATV/off-road vehicle tours" }) }

InitTermination ==
    /\ user_data \in TerminationInputs
    /\ results = calculate_impact(user_data)
    /\ recommendations = Derived(user_data, results)
    /\ prev = Absent
    /\ scores = Absent
    /\ calls = 0
    /\ frames = [ p \in { 1 } |-> Idle ]

SpecTermination ==
    InitTermination /\ [][NextSteps]_vars /\ WF_vars(Step(1))

-----------------------------------------------------------------------------
(* SpecSession: the page over a browser session.  user_data, results and    *)
(* recommendations are the three keys of st.session_state, Absent standing  *)
(* for a key that is not in the session.  An action is one click with the   *)
(* script run it starts and the run that st.rerun() starts after it; frames *)
(* holds what the last run of main has drawn.                               *)

\* the records the widgets of input_form can produce
FormInputs ==
    { ud \in ValidInputs({ FormDefaults }) :
        /\ ud.flight_distance \in 300..10000
        /\ ud.shower_length \in 1..30
        /\ ud.pool_usage \in 0..8 }

\* the keys of the session
Session ==
    [ user_data |-> user_data, results |-> results,
      recommendations |-> recommendations ]

NoSession ==
    [ user_data |-> Absent, results |-> Absent, recommendations |-> Absent ]

\* lines 1374-1376: the three assignments of the submit handler.  An
\* exception of calculate_impact ends the run after the first of them.
store_in_session(ud) ==
    LET res == calculate_impact(ud)
    IN  IF res.kind = "result"
        THEN [ user_data |-> ud, results |-> res,
               recommendations |-> Derived(ud, res) ]
        ELSE [ NoSession EXCEPT !.user_data = ud ]

\* the handler of 'Calculate Again' deleting the results key alone
clear_session_results_only(session) == [session EXCEPT !.results = Absent]

\* lines 1430-1431: every key of the session is deleted
clear_session(session) == [ key \in DOMAIN session |-> Absent ]

\* line 1388: what main draws for a session
main(session) ==
    [ kind |-> "page",
      shown |-> IF session.results = Absent THEN "input_form" ELSE "results" ]

\* the run that st.rerun() starts with the session as the handler left it
rerun(session) ==
    /\ user_data' = session.user_data
    /\ results' = session.results
    /\ recommendations' = session.recommendations
    /\ frames' = << main(session) >>

\* the visitor fills the form in and clicks 'Calculate My Impact'
CalculateMyImpact ==
    /\ frames[1].shown = "input_form"
    /\ \E ud \in FormInputs : rerun(store_in_session(ud))
    /\ UNCHANGED <<prev, scores, calls>>

\* the visitor clicks 'Calculate Again' on the results page
CalculateAgain ==
    /\ frames[1].shown = "results"
    /\ rerun(clear_session(Session))
    /\ UNCHANGED <<prev, scores, calls>>

\* the first run of main in a new browser session
InitSession ==
    /\ user_data = Absent
    /\ results = Absent
    /\ recommendations = Absent
    /\ prev = Absent
    /\ scores = Absent
    /\ calls = 0
    /\ frames = << main(NoSession) >>

NextSession == CalculateMyImpact \/ CalculateAgain

SpecSession == InitSession /\ [][NextSession]_vars

-----------------------------------------------------------------------------
(* Properties of the scoring engine, checked under Spec *)

Computed == results # Absent

CategoryScores(res) ==
    { res.transport_score, res.accommodation_score, res.activities_score,
      res.water_score, res.waste_score, res.food_score }

\* C1: for every valid TripParameters record calculate_impact returns a
\* result whose six category scores lie in [0,100] and whose overall_score
\* lies in [0,100].
C1_ScoresInRange ==
    (Computed /\ Valid(user_data)) =>
        /\ results.kind = "result"
        /\ \A x \in CategoryScores(results) : 0 <= x /\ x <= 100 * SU
        /\ results.overall_score \in 0..100

\* a valid record whose unclamped transport score is below 0 and whose
\* unclamped water score is above 100: both clamps have acted
C1_Witness ==
    /\ Computed /\ Valid(user_data)
    /\ results.kind = "result"
    /\ user_data.flight_distance = 10000
    /\ user_data.shower_length = 1 /\ user_data.linen_reuse
    /\ user_data.water_conservation = 100 /\ user_data.pool_usage = 0
    /\ results.transport_score = 0
    /\ results.water_score = 100 * SU

OutOfRange(ud) ==
    \/ \E f \in FractionFields : ud[f] \notin 0..100
    \/ ud.duration < 1

\* C2: calculate_impact fails with InvalidParameter, returning no result,
\* whenever a fraction field lies outside [0,1] or duration < 1.
C2_OutOfRangeRejected ==
    (Computed /\ OutOfRange(user_data)) => results.kind = "InvalidParameter"

UnknownLabel(ud) ==
    \/ ud.local_transport \notin TransportModes
    \/ ud.accommodation_type \notin AccommodationTypes

DiffersOnlyIn(a, b, f) == a[f] # b[f] /\ [a EXCEPT ![f] = b[f]] = b

\* the current call and the remembered one both returned a result, for
\* valid records that differ only in the field f
ComparableOn(f) ==
    /\ prev # Absent /\ Computed
    /\ prev.results.kind = "result" /\ results.kind = "result"
    /\ Valid(prev.user_data) /\ Valid(user_data)
    /\ DiffersOnlyIn(prev.user_data, user_data, f)

\* C9: of two valid records that differ only in shower_length, the one with
\* the longer shower has the water score that is less than or equal.
C9_ShowerMonotone ==
    ComparableOn("shower_length") =>
        /\ (user_data.shower_length > prev.user_data.shower_length =>
              results.water_score <= prev.results.water_score)
        /\ (user_data.shower_length < prev.user_data.shower_length =>
              results.water_score >= prev.results.water_score)

\* a longer shower has lowered the water score strictly, between the clamps
C9_Witness ==
    /\ ComparableOn("shower_length")
    /\ user_data.shower_length > prev.user_data.shower_length
    /\ results.water_score < prev.results.water_score
    /\ results.water_score > 0
    /\ prev.results.water_score < 100 * SU

\* strictly greater, or equal at the same clamp boundary
GreaterOrClamped(with, without) ==
    \/ with > without
    \/ with = without /\ with \in { 0, 100 * SU }

\* C10: of two valid records that differ only in linen_reuse, the one with
\* linen_reuse = true has the strictly greater water score and the strictly
\* greater accommodation score, except that a score may be equal when both
\* values sit at the same clamp boundary.
C10_LinenRaisesScores ==
    ComparableOn("linen_reuse") =>
        LET with == IF user_data.linen_reuse THEN results ELSE prev.results
            without == IF user_data.linen_reuse THEN prev.results ELSE results
        IN  /\ GreaterOrClamped(with.water_score, without.water_score)
            /\ GreaterOrClamped(with.accommodation_score,
                                without.accommodation_score)

\* linen reuse switched on: the accommodation score rose while the water
\* score stayed at the lower clamp
C10_Witness ==
    /\ ComparableOn("linen_reuse")
    /\ user_data.linen_reuse
    /\ results.accommodation_score > prev.results.accommodation_score
    /\ results.water_score = 0 /\ prev.results.water_score = 0

-----------------------------------------------------------------------------
(* Properties of the recommendations, checked under SpecRules *)

Listed == recommendations # Absent

General(item) == item.category = "general"

\* the number of rule advisories (those that are not general) of a list
RuleCount(items) ==
    Cardinality({ i \in DOMAIN items : ~General(items[i]) })

\* C4: get_recommendations returns a list of at least 2 and at most
\* (number of rules + 2) items, the number of rules being 13.
C4_LengthBounds ==
    /\ NumRules = 13
    /\ Listed =>
         /\ Len(recommendations.items) >= 2
         /\ Len(recommendations.items) <= NumRules + 2

\* no rule has fired and the list is the two general advisories alone
C4_Witness ==
    /\ Listed
    /\ Len(rule_recommendations(user_data)) = 0
    /\ Len(recommendations.items) = 2

Fallback ==
    << Advisory("general", "Support Hawaiian conservation efforts"),
       Advisory("general", "Learn about Hawaiian culture") >>

\* C5: if fewer than 3 rule advisories were produced, exactly the two fixed
\* general advisories follow them, together, at the end of the list; if 3 or
\* more were produced, no general advisory is in the list.
C5_FallbackRule ==
    Listed =>
        LET items == recommendations.items
            k == RuleCount(items)
        IN  /\ k = Len(rule_recommendations(user_data))
            /\ \A i \in 1..k : ~General(items[i])
            /\ k < 3 => /\ Len(items) = k + 2
                        /\ SubSeq(items, k + 1, k + 2) = Fallback
            /\ k >= 3 => Len(items) = k

\* two rules fired and the two general advisories follow them
C5_Witness ==
    /\ Listed
    /\ RuleCount(recommendations.items) = 2
    /\ Len(recommendations.items) = 4
    /\ recommendations.items[3].title = "Support Hawaiian conservation efforts"
    /\ recommendations.items[4].title = "Learn about Hawaiian culture"

-----------------------------------------------------------------------------
(* Properties of the aggregation step, checked under SpecAgg *)

\* C6: whenever overall_score is 0, all six impact_breakdown entries are 0
\* exactly, and no division by overall_score is made with a zero divisor.
C6_ZeroOverallBreakdown ==
    Computed =>
        /\ results.kind = "result"
        /\ results.overall_score = 0 =>
             \A c \in DOMAIN weights : results.impact_breakdown[c] = Zero
        /\ \A c \in DOMAIN weights : results.impact_breakdown[c].den # 0

\* the weighted sum is positive and rounds to 0: the breakdown is all zero
C6_Witness ==
    /\ Computed
    /\ results.kind = "result"
    /\ results.overall_score = 0
    /\ results.transport_score > 0
    /\ \A c \in DOMAIN weights : results.impact_breakdown[c] = Zero

-----------------------------------------------------------------------------
(* Properties of repeated calls, checked under SpecCalls *)

-----------------------------------------------------------------------------
(* The two reference scenarios, checked under Spec *)

\* C11: for the maximally sustainable scenario (duration 7, flight 3000,
\* walking/biking, eco-certified hotel, no air conditioning, every fraction
\* 1.0, every boolean true, shower 1 minute, no pool, Beach relaxation only)
\* calculate_impact returns a result whose overall_score is at least 80.
C11_BestScenarioUpperBand ==
    (Computed /\ user_data = MostSustainable)
        => /\ results.kind = "result"
           /\ results.overall_score >= 80

\* the scenario has been submitted and scored 87
C11_Witness ==
    /\ user_data = MostSustainable
    /\ results.kind = "result"
    /\ results.overall_score = 87

\* the inverse scenario with the duration d
InverseScenario(d) == [LeastSustainable EXCEPT !.duration = d]

\* C12: for the inverse scenario (every boolean false, every fraction 0,
\* rental SUV, luxury resort, air conditioning 24 h, shower 30 minutes, pool
\* 8 h, flight 10000, motorized water sports and ATV tours) with any
\* duration of at least 1 day calculate_impact returns a result whose
\* overall_score is below 20.
C12_WorstScenarioLowestBand ==
    (/\ Computed
     /\ user_data.duration >= 1
     /\ user_data = InverseScenario(user_data.duration))
        => /\ results.kind = "result"
           /\ results.overall_score < 20

\* the scenario has been submitted with a duration other than the form's
\* default and scored 14
C12_Witness ==
    /\ user_data = InverseScenario(30)
    /\ results.kind = "result"
    /\ results.overall_score = 14

-----------------------------------------------------------------------------
(* The impact estimators, checked under SpecMetrics *)

\* C13: for every in-range TripParameters record, the smallest and the
\* largest value of every field included, the carbon footprint, the water
\* usage and the waste generation that calculate_impact returns (the results
\* of calculate_carbon_footprint, calculate_water_usage and
\* calculate_waste_generation) are all non-negative.
C13_MetricsNonNegative ==
    (Computed /\ Valid(user_data))
        => /\ results.kind = "result"
           /\ results.carbon_footprint >= 0
           /\ results.water_usage >= 0
           /\ results.waste_generation >= 0

\* the record with the least water use has been submitted: camping, no
\* shower, no pool, full conservation effort, linen reused
C13_Witness ==
    /\ results.kind = "result"
    /\ Valid(user_data)
    /\ user_data.accommodation_type = "Camping/outdoor lodging"
    /\ user_data.shower_length = 0
    /\ user_data.pool_usage = 0
    /\ user_data.water_conservation = 100
    /\ user_data.linen_reuse
    /\ results.water_usage = 38

-----------------------------------------------------------------------------
(* The aggregation as calculate_impact returns it, checked under Spec *)

\* the category score of a result, by category
ScoreOf(res) ==
    [ transport |-> res.transport_score,
      accommodation |-> res.accommodation_score,
      activities |-> res.activities_score,
      water |-> res.water_score,
      waste |-> res.waste_score,
      food |-> res.food_score ]

\* 0.20*transport + 0.20*accommodation + 0.15*activities + 0.15*water
\* + 0.15*waste + 0.15*food of the stored scores, in score units
WeightedSum(res) ==
    (res.transport_score \div 20) * 4 + (res.accommodation_score \div 20) * 4
      + (res.activities_score \div 20) * 3 + (res.water_score \div 20) * 3
      + (res.waste_score \div 20) * 3 + (res.food_score \div 20) * 3

\* C14: the overall_score calculate_impact returns is the weighted sum
\* 0.20*transport + 0.20*accommodation + 0.15*activities + 0.15*water +
\* 0.15*waste + 0.15*food of the un-rounded category scores rounded to the
\* nearest integer: a whole number at most 0.5 away from the weighted sum;
\* and the six category scores are stored as the scorers returned them,
\* un-rounded.
C14_OverallIsRoundedWeightedSum ==
    results.kind = "result" =>
        /\ results.overall_score \in Int
        /\ 2 * (results.overall_score * SU - WeightedSum(results)) <= SU
        /\ 2 * (WeightedSum(results) - results.overall_score * SU) <= SU
        /\ ScoreOf(results)
             = category_scores(user_data, get_oahu_environmental_factors)

\* a result whose weighted sum is not whole and lies above the half (so
\* that the rounding went up), with a category score that is not whole
C14_Witness ==
    /\ results.kind = "result"
    /\ 2 * (WeightedSum(results) % SU) > SU
    /\ results.overall_score * SU > WeightedSum(results)
    /\ results.transport_score % SU # 0

\* C15: when overall_score > 0, every impact_breakdown entry is
\* weight * (un-rounded category score) / (rounded overall_score), so the six
\* entries sum to (un-rounded weighted sum) / (rounded overall_score), which
\* need not be exactly 1.0.
C15_BreakdownFormula ==
    (results.kind = "result" /\ results.overall_score > 0) =>
        \A c \in DOMAIN weights :
            LET entry == results.impact_breakdown[c]
            IN  /\ entry.kind = "number"
                /\ entry.den = results.overall_score
                /\ entry.num = (ScoreOf(results)[c] \div 20) * (weights[c] \div 5)

\* the sum of the numerators of the six entries over their common
\* denominator
BreakdownSum(res) ==
    LET b == res.impact_breakdown
    IN  [ num |-> b.transport.num + b.accommodation.num + b.activities.num
                    + b.water.num + b.waste.num + b.food.num,
          den |-> res.overall_score ]

\* a result with a positive overall score whose entries sum to the weighted
\* sum over the rounded overall score, and not to 1
C15_Witness ==
    /\ results.kind = "result"
    /\ results.overall_score > 0
    /\ BreakdownSum(results).num = WeightedSum(results)
    /\ BreakdownSum(results).num # BreakdownSum(results).den * SU

-----------------------------------------------------------------------------
(* The order and the conditions of the rules, checked under SpecRules *)

\* the titles of a list of advisories
Titles(items) == [ k \in 1..Len(items) |-> items[k].title ]

\* the rule advisories of a list: those that are not general
RuleItems(items) == SelectSeq(items, LAMBDA item : ~General(item))

\* the titles of the rules whose condition holds for ud, in rule order
MatchingTitles(ud) ==
    LET matching ==
            SelectSeq([ i \in 1..NumRules |-> i ],
                      LAMBDA i : rule_matches(ud)[i])
    IN  [ k \in 1..Len(matching) |-> RuleTitles[matching[k]] ]

\* C16: the list get_recommendations returns holds exactly one advisory for
\* each rule that matches, in the fixed order of the rules (vehicle choice,
\* flight offset, AC usage, linen reuse, shower length, pool usage, reusable
\* bottle, cleanup, local food, sustainable seafood, low-impact activities,
\* reef-safe sunscreen, wildlife distance); the engine duplicates, reorders
\* and truncates none of them.
C16_RuleOrder ==
    Listed =>
        Titles(RuleItems(recommendations.items)) = MatchingTitles(user_data)

\* every rule matches: the returned list holds the thirteen advisories in
\* rule order, of which the results page shows five
C16_Witness ==
    /\ Listed
    /\ \A i \in 1..NumRules : rule_matches(user_data)[i]
    /\ Titles(recommendations.items) = RuleTitles
    /\ Len(display_recommendations(recommendations.items)) = 5

\* the titles of the three advisories conditioned on an activity
ActivityTitles ==
    { "Choose low-impact activities", "Use reef-safe sunscreen",
      "Maintain distance from wildlife" }

\* C17: get_recommendations does not fail for a well-formed record (it
\* returns a list), and when the activities set is empty none of the three
\* activity-conditioned advisories is in the list, whatever the reef_safe
\* and wildlife_distance flags.
C17_EmptyActivitiesSkipRules ==
    (Computed /\ Valid(user_data)) =>
        /\ recommendations.kind = "list"
        /\ user_data.activities = {} =>
              \A k \in DOMAIN recommendations.items :
                  recommendations.items[k].title \notin ActivityTitles

\* a record without activities and with both flags false has been given
\* its list
C17_Witness ==
    /\ Listed
    /\ Valid(user_data)
    /\ user_data.activities = {}
    /\ ~user_data.reef_safe
    /\ ~user_data.wildlife_distance
    /\ Len(recommendations.items) >= 2

-----------------------------------------------------------------------------
(* Frame and interleaving, checked under SpecSteps *)

\* the invocations that have been given a record
Entered == { p \in DOMAIN frames : frames[p].pc # "idle" }

\* calculate_impact has returned or raised in the invocation p
Returned(p) == frames[p].pc \in { "rules", "general", "done", "raised" }

\* C18: calculate_impact, the category scorers, the impact estimators and
\* get_recommendations leave their inputs unchanged: at every point of every
\* sequence of calls the user_data record an invocation was passed has the
\* contents it was passed with, the destination factor table a call holds
\* has the contents get_oahu_environmental_factors built, and the session
\* state holds what the submit handler stored, untouched by the engine.
C18_InputsUnchanged ==
    /\ \A p \in Entered :
         /\ frames[p].user_data = frames[p].given
         /\ frames[p].locals.oahu_factors
              \in { Absent, get_oahu_environmental_factors }
    /\ user_data = FormDefaults
    /\ results = calculate_impact(FormDefaults)
    /\ recommendations = Derived(FormDefaults, results)

\* an invocation with three activities has run both passes over them and
\* get_recommendations to the end, and another one is in the middle of a
\* pass, holding the table
C18_Witness ==
    \E p, q \in Entered :
        /\ frames[p].pc = "done"
        /\ Cardinality(frames[p].given.activities) = 3
        /\ frames[p].user_data = frames[p].given
        /\ frames[q].pc = "carbon_loop"
        /\ frames[q].locals.total > 0
        /\ frames[q].locals.oahu_factors = get_oahu_environmental_factors

\* C19: when several invocations of calculate_impact with different records
\* run at once, their statements interleaved in any order, each returns (or
\* raises) exactly what calculate_impact returns for its record when run
\* alone.
C19_InterleavingIndependent ==
    \A p \in Entered :
        Returned(p) => frames[p].results = calculate_impact(frames[p].given)

\* two invocations with different records are in flight together and
\* calculate_impact has returned its result in both
C19_Witness ==
    \E p, q \in Entered :
        /\ frames[p].given # frames[q].given
        /\ Running(frames[p]) /\ Running(frames[q])
        /\ Returned(p) /\ Returned(q)
        /\ frames[p].results.kind = "result"
        /\ frames[q].results.kind = "result"

-----------------------------------------------------------------------------
(* Termination, checked under SpecTermination *)

\* the invocation p has run to its end on a well-formed record:
\* calculate_impact has returned a result and get_recommendations a list
Completed(p) ==
    /\ frames[p].pc = "done"
    /\ frames[p].results.kind = "result"
    /\ frames[p].recommendations.kind = "list"
    /\ Len(frames[p].recommendations.items) >= 2

\* C20: every call of calculate_impact and of get_recommendations on a
\* well-formed TripParameters record with a finite activities collection
\* terminates and returns its result; the loops on the way are passes over
\* the activities collection, each visiting every element once.
C20_Terminates ==
    (Running(frames[1]) /\ Valid(frames[1].given)) ~> Completed(1)

\* an invocation with four activities has left both passes behind and run
\* to its end
C20_Witness ==
    /\ Completed(1)
    /\ Valid(frames[1].given)
    /\ Cardinality(frames[1].given.activities) = 4

-----------------------------------------------------------------------------
(* The weights, checked under SpecAgg *)

\* C21: the six weights calculate_impact aggregates with are transport 0.20,
\* accommodation 0.20, activities 0.15, water 0.15, waste 0.15 and food
\* 0.15, and they sum to exactly 1.00: six equal category scores aggregate
\* to that very score.
C21_WeightsSumToOne ==
    /\ weights = [ transport |-> 20, accommodation |-> 20, activities |-> 15,
                   water |-> 15, waste |-> 15, food |-> 15 ]
    /\ weights.transport + weights.accommodation + weights.activities
         + weights.water + weights.waste + weights.food = 100
    /\ (results.kind = "result"
          /\ \A c \in DOMAIN weights : ScoreOf(results)[c] = 100 * SU)
         => results.overall_score = 100

\* six category scores of 100 have been aggregated to 100
C21_Witness ==
    /\ results.kind = "result"
    /\ \A c \in DOMAIN weights : ScoreOf(results)[c] = 100 * SU
    /\ results.overall_score = 100

-----------------------------------------------------------------------------
(* Activity labels that are no key, checked under SpecMetrics *)

\* the record in user_data has the unlisted label among its activities
HasUnlisted == user_data # Absent /\ UnlistedActivity \in user_data.activities

\* the record in user_data without the unlisted label
Listed_only == [user_data EXCEPT !.activities = @ \ { UnlistedActivity }]

\* what an activity factor of fallback/1000 ton adds to the carbon footprint
\* of a trip of so many days, in carbon units:
\* fallback * (days / 3) * island_multiplier
CarbonShare(fallback, days) ==
    ((fallback * days * (CU \div 3000)) \div 5) * 6

\* the activities score and the carbon footprint of the record in user_data
\* are those of a label with the impact points/100 in the scorer and the
\* carbon factor thousandths/1000 ton in the estimator
FallsBackTo(points, thousandths) ==
    /\ results.kind = "result"
    /\ results.activities_score =
         activities_impact_from(
            user_data, get_oahu_environmental_factors,
            SumImpacts(Listed_only.activities, get_oahu_environmental_factors)
              + points)
    /\ results.carbon_footprint =
         calculate_carbon_footprint(Listed_only,
                                    get_oahu_environmental_factors)
           + CarbonShare(thousandths, user_data.duration)

\* C22 as stated: an activity label outside the enumeration counts as impact
\* 10 in the activities scorer and as 10 in the carbon estimator, the same
\* fallback value in both lookups, and nothing is raised.
C22_SameFallbackInBothLookups ==
    (Computed /\ HasUnlisted) => FallsBackTo(10 * 100, 10 * 1000)

\* C22, amended: an activity label outside the enumeration counts as impact
\* 10 in the activities scorer and as 0.01 ton in the carbon estimator, and
\* nothing is raised.
C22_FallbackPerLookup ==
    (Computed /\ HasUnlisted) => FallsBackTo(10 * 100, 10)

\* a record with the unlisted label beside a listed one has been scored
C22_Witness ==
    /\ Computed
    /\ HasUnlisted
    /\ user_data.activities = { UnlistedActivity, "Beach relaxation" }
    /\ user_data.duration = 30
    /\ results.kind = "result"
    /\ results.carbon_footprint
         > calculate_carbon_footprint(Listed_only,
                                      get_oahu_environmental_factors)

-----------------------------------------------------------------------------
(* The activities scorer, checked under Spec *)

\* 100 and the three adjustments that depend on eco_tours, wildlife_distance
\* and reef_safe alone, before the clamp, in score units
FlagsScore(eco_tours, wildlife_distance, reef_safe) ==
    LET factors == get_oahu_environmental_factors.activities
    IN  100 * SU
          + (IF eco_tours THEN 15 * SU ELSE 0)
          + (IF wildlife_distance THEN 10 * SU
             ELSE -(10 * Hundredths(factors.wildlife_disturbance)))
          + (IF reef_safe THEN 15 * SU
             ELSE -(15 * Hundredths(factors.reef_vulnerability)))

\* C23: calculate_activities_impact deducts the average, not the sum, of the
\* impacts of the selected activities; with no activity selected it deducts
\* nothing and divides by nothing, so that the score depends on eco_tours,
\* wildlife_distance and reef_safe alone.  (Hence adding a low-impact
\* activity to a selection can raise the score.)
C23_AverageDeduction ==
    results.kind = "result" =>
        LET flags == FlagsScore(user_data.eco_tours,
                                user_data.wildlife_distance,
                                user_data.reef_safe)
            n == Cardinality(user_data.activities)
            total == Hundredths(SumImpacts(user_data.activities,
                                           get_oahu_environmental_factors))
        IN  results.activities_score =
              IF n = 0 THEN Clamp(flags)
              ELSE Clamp(flags - total \div n)

\* a selection of two activities has been scored higher than the selection
\* without its low-impact member (Beach relaxation) would be, and lower than
\* the empty selection would be
C23_Witness ==
    /\ results.kind = "result"
    /\ Cardinality(user_data.activities) = 2
    /\ "Beach relaxation" \in user_data.activities
    /\ results.activities_score >
         calculate_activities_impact(
            [user_data EXCEPT !.activities = @ \ { "Beach relaxation" }],
            get_oahu_environmental_factors)
    /\ results.activities_score <
         calculate_activities_impact(
            [user_data EXCEPT !.activities = {}],
            get_oahu_environmental_factors)

-----------------------------------------------------------------------------
(* The diet adjustment of the carbon estimator, checked under Spec *)

\* the carbon footprint of the record in user_data with plant_based and
\* local_food replaced
FootprintWith(plant_based, local_food) ==
    calculate_carbon_footprint(
        [user_data EXCEPT !.plant_based = plant_based,
                          !.local_food = local_food],
        get_oahu_environmental_factors)

\* the three tiers as the claim states them, in tenths
Tier(plant_based) ==
    CASE plant_based < 30 -> 20
      [] plant_based >= 30 /\ plant_based < 70 -> 15
      [] plant_based >= 70 -> 8

\* C24: the diet adjustment of calculate_carbon_footprint is 2.0 for
\* plant_based < 0.3, 1.5 for 0.3 <= plant_based < 0.7 and 0.8 for
\* plant_based >= 0.7 (so 1.5 at exactly 0.3 and 0.8 at exactly 0.7), scaled
\* by (1.5 - local_food * 0.5): the food emissions are
\* 0.01 * tier * (1.5 - local_food * 0.5) * days before the island
\* multiplier.  Therefore the footprint never increases when plant_based or
\* local_food increases, all else fixed.
C24_DietTiers ==
    (results.kind = "result" /\ Valid(user_data)) =>
        LET v == user_data.plant_based
            l == user_data.local_food
        IN  /\ results.carbon_footprint - FootprintWith(100, 100)
                 = (Tier(v) * (300 - l) - 8 * 200) * user_data.duration
                     * (((CU \div 200000) \div 5) * 6)
            /\ \A w \in { 0, 29, 30, 69, 70, 100 } :
                 w >= v => FootprintWith(w, l) <= results.carbon_footprint
            /\ \A m \in { 0, 50, 100 } :
                 m >= l => FootprintWith(v, m) <= results.carbon_footprint

\* a record with plant_based exactly 0.3 has been estimated: its footprint
\* is that of the middle tier (as at 0.69) and below that of 0.29
C24_Witness ==
    /\ results.kind = "result"
    /\ Valid(user_data)
    /\ user_data.plant_based = 30
    /\ results.carbon_footprint = FootprintWith(69, user_data.local_food)
    /\ results.carbon_footprint < FootprintWith(29, user_data.local_food)
    /\ results.carbon_footprint > FootprintWith(70, user_data.local_food)

-----------------------------------------------------------------------------
(* The range of the overall score, checked under SpecExtremes *)

\* C25: for every valid record the overall_score lies between 14 and 99
\* inclusive: it is never 0, so the all-zero impact_breakdown is never
\* returned, and never 100, the food score being at most 96.5 and the
\* accommodation score at most 99.75.
C25_OverallBetween14And99 ==
    (Computed /\ Valid(user_data)) =>
        /\ results.kind = "result"
        /\ results.overall_score \in 14..99
        /\ results.food_score <= Hundredths(9650)
        /\ results.accommodation_score <= Hundredths(9975)
        /\ \E c \in DOMAIN results.impact_breakdown :
             results.impact_breakdown[c] # Zero

\* the record with every scorer at its least sustainable end has been
\* scored: transport, accommodation and water 0, activities 52, waste 34,
\* food 6.5, overall round(13.875) = 14
C25_Witness ==
    /\ Computed
    /\ Valid(user_data)
    /\ results.kind = "result"
    /\ results.overall_score = 14
    /\ results.transport_score = 0
    /\ results.accommodation_score = 0
    /\ results.water_score = 0
    /\ results.activities_score = 52 * SU
    /\ results.waste_score = 34 * SU
    /\ results.food_score = Hundredths(650)

-----------------------------------------------------------------------------
(* The list against the five items the results page shows, checked under    *)
(* SpecRules                                                                *)

\* the positions of the general advisories in a list
GeneralAt(items) == { i \in DOMAIN items : General(items[i]) }

\* C26: the list get_recommendations returns never has more than 13 items,
\* and whenever it contains the two general advisories its length is 2, 3 or
\* 4, so the first five items that display_recommendations shows include
\* every general advisory of the list.
C26_FallbackNeverTruncated ==
    Listed =>
        LET items == recommendations.items
            shown == display_recommendations(items)
        IN  /\ Len(items) <= 13
            /\ GeneralAt(items) # {} =>
                 /\ Len(items) \in { 2, 3, 4 }
                 /\ \A k \in 1..2 : \E i \in GeneralAt(items) :
                      items[i] = Fallback[k]
            /\ \A i \in GeneralAt(items) :
                 i <= Len(shown) /\ shown[i] = items[i]
            /\ Len(shown) = Min(5, Len(items))

\* two rules fired: the list has four items, the general advisories are the
\* third and fourth, and all four are shown
C26_Witness ==
    /\ Listed
    /\ Len(rule_recommendations(user_data)) = 2
    /\ GeneralAt(recommendations.items) = { 3, 4 }
    /\ display_recommendations(recommendations.items) = recommendations.items

-----------------------------------------------------------------------------
(* The numeric thresholds of the rules, checked under SpecRules *)

\* the advisory of that title is in the list in recommendations
Advised(title) ==
    \E i \in DOMAIN recommendations.items :
        recommendations.items[i].title = title

\* C27: the numeric rules use strict thresholds: the flight-offset advisory
\* is given exactly when flight_distance > 3000, the shower advisory when
\* shower_length > 5, the pool advisory when pool_usage > 3, the local-food
\* advisory when local_food < 0.5, and the AC advisory when ac_usage > 6 and
\* the accommodation is a standard hotel/resort or a luxury resort; at 3000,
\* 5, 3, 0.5 and 6 none of them is given.
C27_StrictThresholds ==
    Listed =>
        /\ Advised("Offset your flight emissions")
             <=> user_data.flight_distance > 3000
        /\ Advised("Take shorter showers") <=> user_data.shower_length > 5
        /\ Advised("Balance pool and ocean time") <=> user_data.pool_usage > 3
        /\ Advised("Eat more local food") <=> user_data.local_food < 50
        /\ Advised("Reduce AC usage")
             <=> /\ user_data.ac_usage > 6
                 /\ user_data.accommodation_type
                      \in { "Standard hotel/resort", "Luxury resort" }
        /\ user_data.flight_distance = 3000
             => ~Advised("Offset your flight emissions")
        /\ user_data.shower_length = 5 => ~Advised("Take shorter showers")
        /\ user_data.pool_usage = 3 => ~Advised("Balance pool and ocean time")
        /\ user_data.local_food = 50 => ~Advised("Eat more local food")
        /\ user_data.ac_usage = 6 => ~Advised("Reduce AC usage")

\* a luxury-resort record with every numeric field at its threshold has been
\* advised, and none of the five advisories is in its list
C27_Witness ==
    /\ Listed
    /\ user_data.flight_distance = 3000
    /\ user_data.shower_length = 5
    /\ user_data.pool_usage = 3
    /\ user_data.local_food = 50
    /\ user_data.ac_usage = 6
    /\ user_data.accommodation_type = "Luxury resort"
    /\ \A t \in { "Offset your flight emissions", "Take shorter showers",
                  "Balance pool and ocean time", "Eat more local food",
                  "Reduce AC usage" } : ~Advised(t)

-----------------------------------------------------------------------------
(* The session over submissions and 'Calculate Again', checked under        *)
(* SpecSession                                                              *)

\* the session holds all three keys, consistent with each other
SessionComplete ==
    /\ user_data # Absent
    /\ results = calculate_impact(user_data)
    /\ results.kind = "result"
    /\ recommendations # Absent
    /\ recommendations.items = get_recommendations(user_data, results)

SessionEmpty ==
    user_data = Absent /\ results = Absent /\ recommendations = Absent

\* C28: after any sequence of form submissions and 'Calculate Again' clicks,
\* once the page has been drawn the session holds either all three of
\* user_data, results and recommendations or none of them; when present,
\* results is calculate_impact(user_data) and recommendations is
\* get_recommendations(user_data, results) for the stored user_data; the
\* input form is shown exactly when results is absent; and whenever results
\* leaves the session ('Calculate Again') the session is left empty.
C28_SessionAllOrNone ==
    /\ [](/\ SessionComplete \/ SessionEmpty
          /\ frames[1].shown = "input_form" <=> results = Absent
          /\ frames[1].shown = "results" <=> results # Absent)
    /\ [][(results # Absent /\ results' = Absent) => SessionEmpty']_vars

\* a record has been submitted and the results page is shown with its
\* results and recommendations
C28_Witness ==
    /\ SessionComplete
    /\ frames[1].shown = "results"
    /\ user_data # FormDefaults
    /\ Len(recommendations.items) >= 2

====
